---- MODULE Spec2Model ----
(***************************************************************************)
(* aws-lambda-rie-gateway (src/main.rs): an HTTP server that turns each    *)
(* inbound request into an API Gateway proxy event, POSTs it to the Lambda *)
(* Runtime Interface Emulator and turns the JSON reply into the HTTP       *)
(* response.  The model covers main() (socket acquisition, serve loop,     *)
(* graceful shutdown) and handle() (the per-request pipeline), with the    *)
(* codecs handle() calls computed on character and byte sequences.         *)
(*                                                                         *)
(* Text is a sequence of one-character strings, bytes are 0..255, a Rust   *)
(* Option is a sequence of length 0 (None) or 1 (Some), a HashMap is a     *)
(* function.                                                               *)
(***************************************************************************)
EXTENDS Integers, Sequences, FiniteSets, Bags, TLC

\* ------------------------------------------------------------- bounds
MaxConns == 1
MaxReqs == 2
MaxQueryLen == 3
MaxBodyLen == 3

\* ------------------------------------------------------------- Option
None == <<>>
Some(x) == <<x>>
IsSome(o) == Len(o) = 1
IsNone(o) == Len(o) = 0
UnwrapOr(o, d) == IF Len(o) = 0 THEN d ELSE o[1]

EmptyMap == [k \in {} |-> <<>>]
\* HashMap::insert: a later insert of the same key replaces the value.
MapInsert(m, k, v) == [x \in DOMAIN m \cup {k} |-> IF x = k THEN v ELSE m[x]]

RECURSIVE SeqsUpTo(_, _)
SeqsUpTo(S, n) ==
    IF n = 0 THEN {<<>>}
    ELSE LET shorter == SeqsUpTo(S, n - 1)
         IN  shorter \cup {Append(s, x) : s \in {t \in shorter : Len(t) = n - 1}, x \in S}

\* ------------------------------------------- url::form_urlencoded::parse
HexDigits == {"4"}
HexValue(c) == IF c = "4" THEN 4 ELSE 0
\* The text of a decoded byte (ASCII): 0x44 is "D".
CharOfByte(b) == IF b = 68 THEN "D" ELSE "?"

\* The segment of s before the first sep (all of s when there is none).
RECURSIVE UpTo(_, _)
UpTo(s, sep) ==
    IF s = <<>> \/ s[1] = sep THEN <<>> ELSE <<s[1]>> \o UpTo(Tail(s), sep)

\* What follows the first sep of s (empty when there is none): splitn(2, sep).
After(s, sep) ==
    LET n == Len(UpTo(s, sep)) IN SubSeq(s, n + 2, Len(s))

\* replace_plus: every "+" becomes a space.
ReplacePlus(s) == [i \in 1..Len(s) |-> IF s[i] = "+" THEN " " ELSE s[i]]

\* percent_decode: "%" followed by two hex digits is one byte, any other
\* "%" stays as it is.
RECURSIVE PercentDecode(_)
PercentDecode(s) ==
    IF s = <<>> THEN <<>>
    ELSE IF s[1] = "%" /\ Len(s) >= 3 /\ s[2] \in HexDigits /\ s[3] \in HexDigits
         THEN <<CharOfByte(16 * HexValue(s[2]) + HexValue(s[3]))>>
              \o PercentDecode(SubSeq(s, 4, Len(s)))
         ELSE <<s[1]>> \o PercentDecode(Tail(s))

FormDecode(s) == PercentDecode(ReplacePlus(s))

\* The pairs form_urlencoded::parse yields, in order: the input is cut at
\* each "&", empty pieces are skipped, each piece is cut at its first "=".
RECURSIVE FormPairs(_)
FormPairs(s) ==
    IF s = <<>> THEN <<>>
    ELSE LET piece == UpTo(s, "&")
             rest  == After(s, "&")
         IN  IF piece = <<>> THEN FormPairs(rest)
             ELSE <<<<FormDecode(UpTo(piece, "=")), FormDecode(After(piece, "="))>>>>
                  \o FormPairs(rest)

\* Iterator::collect into a HashMap: inserts in order.
RECURSIVE CollectMap(_, _)
CollectMap(pairs, m) ==
    IF pairs = <<>> THEN m
    ELSE CollectMap(Tail(pairs), MapInsert(m, pairs[1][1], pairs[1][2]))

\* extract_query_string: uri.query() is an Option; the result is always Ok.
extract_query_string(uri) ==
    IF IsSome(uri.query) THEN CollectMap(FormPairs(uri.query[1]), EmptyMap)
    ELSE EmptyMap

\* handle, lines 134-135: Result::ok() of a result that is always Ok.
QueryStringParameters(uri) == Some(extract_query_string(uri))

\* ------------------------------------------------------- base64::encode
B64Alphabet ==
    <<"A","B","C","D","E","F","G","H","I","J","K","L","M","N","O","P",
      "Q","R","S","T","U","V","W","X","Y","Z","a","b","c","d","e","f",
      "g","h","i","j","k","l","m","n","o","p","q","r","s","t","u","v",
      "w","x","y","z","0","1","2","3","4","5","6","7","8","9","+","/">>
B64Char(n) == B64Alphabet[n + 1]

RECURSIVE Base64Encode(_)
Base64Encode(b) ==
    IF Len(b) = 0 THEN <<>>
    ELSE IF Len(b) = 1
    THEN <<B64Char(b[1] \div 4), B64Char((b[1] % 4) * 16), "=", "=">>
    ELSE IF Len(b) = 2
    THEN <<B64Char(b[1] \div 4),
           B64Char((b[1] % 4) * 16 + b[2] \div 16),
           B64Char((b[2] % 16) * 4), "=">>
    ELSE <<B64Char(b[1] \div 4),
           B64Char((b[1] % 4) * 16 + b[2] \div 16),
           B64Char((b[2] % 16) * 4 + b[3] \div 64),
           B64Char(b[3] % 64)>>
         \o Base64Encode(SubSeq(b, 4, Len(b)))

\* --------------------------------------------------- extract_headers
\* HeaderValue::to_str: Some only when every byte is visible ASCII (or tab).
VisibleChars == {"a", "b", "1", "4", "2", "o", "k", " ", "-", "x", "i", "d"}
ToStr(v) == IF \A i \in 1..Len(v) : v[i] \in VisibleChars THEN Some(v) ELSE None

\* extract_headers: one insert per header line, the value "" when to_str fails.
RECURSIVE extract_headers(_, _)
extract_headers(hs, m) ==
    IF hs = <<>> THEN m
    ELSE extract_headers(Tail(hs), MapInsert(m, hs[1][1], UnwrapOr(ToStr(hs[1][2]), <<>>)))

\* ------------------------------------- the payload handle() serializes
Stage == "staging"
Resource == "/"

\* Variant: the body field present even for an empty body.
BodyFieldAlways(body) == Some(Base64Encode(body))

BodyField(body) == IF Len(body) = 0 THEN None ELSE Some(Base64Encode(body))

\* ApiGatewayV2LambdaProxyIntegrationV2 as handle() fills it in; body is the
\* concatenation of the chunks read from the inbound request.
Payload(req, body) ==
    [ httpMethod            |-> req.method,
      resource              |-> Resource,
      path                  |-> req.uri.path,
      headers               |-> Some(extract_headers(req.headers, EmptyMap)),
      queryStringParameters |-> QueryStringParameters(req.uri),
      pathParameters        |-> None,
      stageVariables        |-> None,
      multiValueHeaders     |-> None,
      body                  |-> BodyField(body),
      isBase64Encoded       |-> FALSE,
      requestContext        |-> [ httpMethod   |-> req.method,
                                  resourcePath |-> req.uri.path,
                                  stage        |-> Stage ] ]

\* ------------------------------------ the reply and the outbound response
U16Max == 65535
InternalServerError == 500
StatusMin == 100
StatusMax == 999

\* resp.json(): the reply body is JSON of the ApiGatewayV2LambdaResponseV1
\* shape (every field optional, statusCode a u16) or the call fails.
Deserialize(reply) ==
    IF reply.wellFormed
       /\ (IsSome(reply.statusCode) => reply.statusCode[1] \in 0..U16Max)
    THEN Some([ is_base64_encoded |-> reply.isBase64Encoded,
                status_code       |-> reply.statusCode,
                headers           |-> reply.headers,
                body              |-> reply.body ])
    ELSE None

\* http::StatusCode::from_u16, reached through Builder::status.
StatusOk(n) == StatusMin <= n /\ n <= StatusMax

\* http::HeaderName::from_bytes: a non-empty token, stored in lower case.
NonTokenChars == {" ", "\n", "\r", "\t", ":", ",", ";", "=", "/", "?", "@"}
LowerChar(c) == IF c = "X" THEN "x" ELSE IF c = "I" THEN "i" ELSE IF c = "D" THEN "d" ELSE c
HeaderNameOk(k) == Len(k) > 0 /\ \A i \in 1..Len(k) : k[i] \notin NonTokenChars
HeaderNameOf(k) == [i \in 1..Len(k) |-> LowerChar(k[i])]

\* http::HeaderValue::from_str: no control character other than tab.
ControlChars == {"\n", "\r"}
HeaderValueOk(v) == \A i \in 1..Len(v) : v[i] \notin ControlChars

\* Builder::header for every entry of the map: each call appends one
\* (name, value) line, so the lines are a bag.
RECURSIVE HeaderLines(_, _)
HeaderLines(m, keys) ==
    IF keys = {} THEN EmptyBag
    ELSE LET k == CHOOSE x \in keys : TRUE
         IN  SetToBag({<<HeaderNameOf(k), m[k]>>}) (+) HeaderLines(m, keys \ {k})

Ok(resp) == [ok |-> TRUE, resp |-> Some(resp), err |-> "none"]
Err(e) == [ok |-> FALSE, resp |-> None, err |-> e]

\* Variant: a missing statusCode taken as 200.
BuildResponseDefaultOk(l) ==
    LET status == UnwrapOr(l.status_code, 200)
        hm     == UnwrapOr(l.headers, EmptyMap)
    IN  IF StatusOk(status)
           /\ \A k \in DOMAIN hm : HeaderNameOk(k) /\ HeaderValueOk(hm[k])
        THEN Ok([ status  |-> status,
                  headers |-> HeaderLines(hm, DOMAIN hm),
                  body    |-> UnwrapOr(l.body, <<>>) ])
        ELSE Err("build")

\* handle, lines 190-200: the builder keeps the first error and body()
\* returns it; otherwise the response carries the status, the header lines
\* and the body string as it came.
BuildResponse(l) ==
    LET status == UnwrapOr(l.status_code, InternalServerError)
        hm     == UnwrapOr(l.headers, EmptyMap)
    IN  IF StatusOk(status)
           /\ \A k \in DOMAIN hm : HeaderNameOk(k) /\ HeaderValueOk(hm[k])
        THEN Ok([ status  |-> status,
                  headers |-> HeaderLines(hm, DOMAIN hm),
                  body    |-> UnwrapOr(l.body, <<>>) ])
        ELSE Err("build")

\* ===================================================== the state machine
VARIABLES
    env,        \* what main() finds at startup: the inherited descriptor, --bind, the port
    mainPc,     \* main(): "start", "serving", "exit_ok" (Ok(())), "exit_fail" (Err or panic)
    sockets,    \* the listening sockets main() has brought up
    bindParsed, \* bind.parse() has been evaluated
    signalled,  \* the ctrl_c future of with_graceful_shutdown has resolved
    atSignal,   \* the requests that were inside handle() when it resolved
    conn,       \* per connection: st ("free", "open", "closed") and proto ("h1", "h2")
    pc,         \* per request: where its handle() future is
    rconn,      \* per request: the connection it arrived on (0 before that)
    input,      \* per request: the hyper::Request handed to handle()
    rest,       \* per request: the inbound body bytes not yet read
    buf,        \* per request: the inbound body bytes read so far
    payload,    \* per request: the payload struct handle() built
    posts,      \* per request: how many POSTs handle() has issued
    raw,        \* per request: the upstream reply whose head has arrived
    lambda,     \* per request: lambda_response
    result,     \* per request: what handle() returned
    wire,       \* per request: the response written to the caller
    trace       \* per request: the stages of handle() that have run, in order

serverVars == <<env, mainPc, sockets, bindParsed, signalled, atSignal>>
reqVars == <<pc, rconn, input, rest, buf, payload, posts, raw, lambda, result, wire, trace>>
vars == <<env, mainPc, sockets, bindParsed, signalled, atSignal, conn,
          pc, rconn, input, rest, buf, payload, posts, raw, lambda, result, wire, trace>>

Conns == 1..MaxConns
Reqs == 1..MaxReqs

\* A handle() future that exists and has not returned.
InHandle == {"read", "sent", "recv"}
\* A request hyper still owes work: in handle(), or its response being written.
InFlight == InHandle \cup {"respond"}
Finished == {"done", "failed"}

OnConn(c) == {r \in Reqs : rconn[r] = c}
Busy(c) == \E r \in OnConn(c) : pc[r] \in InFlight

\* ------------------------------------------------------------- main()
FdStates == {"none", "ok", "notsocket", "noaddr", "notcp"}
Envs == [fd : FdStates, bind : {"valid", "unparseable"}, port : {"free", "inuse"}]

\* Variant: --bind parsed before the inherited descriptor is looked at.
AcquireListenerParsesFirst(e) ==
    IF e.bind = "unparseable"
    THEN [pc |-> "exit_fail", sockets |-> {}, parsed |-> TRUE]
    ELSE IF e.fd = "none"
         THEN IF e.port = "inuse"
              THEN [pc |-> "exit_fail", sockets |-> {}, parsed |-> TRUE]
              ELSE [pc |-> "serving", sockets |-> {"bound"}, parsed |-> TRUE]
         ELSE IF e.fd = "ok"
              THEN [pc |-> "serving", sockets |-> {"inherited"}, parsed |-> TRUE]
              ELSE [pc |-> "exit_fail", sockets |-> {}, parsed |-> TRUE]

\* main, lines 40-47: the inherited descriptor first; the bind address is
\* parsed and bound only when there is none.  Each ? returns Err from main;
\* Server::bind panics when the bind fails.
AcquireListener(e) ==
    IF e.fd = "none"
    THEN IF e.bind = "unparseable"
         THEN [pc |-> "exit_fail", sockets |-> {}, parsed |-> TRUE]
         ELSE IF e.port = "inuse"
              THEN [pc |-> "exit_fail", sockets |-> {}, parsed |-> TRUE]
              ELSE [pc |-> "serving", sockets |-> {"bound"}, parsed |-> TRUE]
    ELSE IF e.fd = "ok"
         THEN [pc |-> "serving", sockets |-> {"inherited"}, parsed |-> FALSE]
         ELSE [pc |-> "exit_fail", sockets |-> {}, parsed |-> FALSE]

Startup ==
    /\ mainPc = "start"
    /\ LET a == AcquireListener(env)
       IN  /\ mainPc' = a.pc
           /\ sockets' = a.sockets
           /\ bindParsed' = a.parsed
    /\ UNCHANGED <<env, signalled, atSignal, conn>>
    /\ UNCHANGED reqVars

\* The serve loop accepts a connection; the client picks the protocol.
Accept(c, p) ==
    /\ mainPc = "serving"
    /\ ~signalled
    /\ conn[c].st = "free"
    /\ \A d \in Conns : d < c => conn[d].st # "free"
    /\ conn' = [conn EXCEPT ![c] = [st |-> "open", proto |-> p]]
    /\ UNCHANGED serverVars
    /\ UNCHANGED reqVars

\* Variant: shutdown leaves idle connections open; only a caller closes one.
CloseConnBeforeSignal(c) ==
    /\ mainPc = "serving"
    /\ ~signalled
    /\ conn[c].st = "open"
    /\ ~Busy(c)
    /\ conn' = [conn EXCEPT ![c].st = "closed"]
    /\ UNCHANGED serverVars
    /\ UNCHANGED reqVars

\* A connection with nothing in flight ends: the client closes it, or, once
\* the signal has resolved, graceful shutdown does.
CloseConn(c) ==
    /\ mainPc = "serving"
    /\ conn[c].st = "open"
    /\ ~Busy(c)
    /\ conn' = [conn EXCEPT ![c].st = "closed"]
    /\ UNCHANGED serverVars
    /\ UNCHANGED reqVars

\* main, lines 49-53: the ctrl_c future resolves.
Signal ==
    /\ mainPc = "serving"
    /\ ~signalled
    /\ signalled' = TRUE
    /\ atSignal' = {r \in Reqs : pc[r] \in InFlight}
    /\ UNCHANGED <<env, mainPc, sockets, bindParsed, conn>>
    /\ UNCHANGED reqVars

\* Variant: the server future resolves at the signal, connections or not.
ServerReturnOnSignal ==
    /\ mainPc = "serving"
    /\ signalled
    /\ mainPc' = "exit_ok"
    /\ UNCHANGED <<env, sockets, bindParsed, signalled, atSignal, conn>>
    /\ UNCHANGED reqVars

\* main, lines 54-55: the graceful server future resolves when the signal has
\* resolved and every connection has ended; main returns Ok(()).
ServerReturn ==
    /\ mainPc = "serving"
    /\ signalled
    /\ \A c \in Conns : conn[c].st # "open"
    /\ mainPc' = "exit_ok"
    /\ UNCHANGED <<env, sockets, bindParsed, signalled, atSignal, conn>>
    /\ UNCHANGED reqVars

\* ------------------------------------------------------------ handle()
\* Variant: any service error shuts the connection down, HTTP/2 included.
OnServiceErrorShutsDown(r) ==
    LET c == rconn[r]
    IN  /\ conn' = [conn EXCEPT ![c].st = "closed"]
        /\ pc' = [q \in Reqs |->
                    IF q = r THEN "failed"
                    ELSE IF rconn[q] = c /\ pc[q] \in InFlight
                         THEN "aborted" ELSE pc[q]]

\* What hyper does with Err from the service (main, lines 35-37, map no
\* error to a response): an HTTP/1 connection is shut down with nothing
\* written, an HTTP/2 stream is reset and its connection lives on.  A
\* request still in flight on a connection that is shut down is dropped.
OnServiceError(r) ==
    LET c == rconn[r]
        closes == conn[c].proto = "h1"
    IN  /\ conn' = IF closes THEN [conn EXCEPT ![c].st = "closed"] ELSE conn
        /\ pc' = [q \in Reqs |->
                    IF q = r THEN "failed"
                    ELSE IF closes /\ rconn[q] = c /\ pc[q] \in InFlight
                         THEN "aborted" ELSE pc[q]]

\* hyper has read a request head on connection c and calls handle(): lines
\* 134-144 run up to the first await, on the body.
Dispatch(r, c, req) ==
    /\ mainPc = "serving"
    /\ conn[c].st = "open"
    /\ pc[r] = "idle"
    /\ \A q \in Reqs : q < r => pc[q] # "idle"
    /\ conn[c].proto = "h1" => ~Busy(c)
    /\ pc' = [pc EXCEPT ![r] = "read"]
    /\ rconn' = [rconn EXCEPT ![r] = c]
    /\ input' = [input EXCEPT ![r] = Some(req)]
    /\ rest' = [rest EXCEPT ![r] = req.body]
    /\ trace' = [trace EXCEPT ![r] = <<"read">>]
    /\ UNCHANGED <<buf, payload, posts, raw, lambda, result, wire, conn>>
    /\ UNCHANGED serverVars

\* lines 146-150: try_concat appends the next chunk of the body stream.
ReadChunk(r, n) ==
    /\ pc[r] = "read"
    /\ n \in 1..Len(rest[r])
    /\ buf' = [buf EXCEPT ![r] = @ \o SubSeq(rest[r], 1, n)]
    /\ rest' = [rest EXCEPT ![r] = SubSeq(@, n + 1, Len(@))]
    /\ UNCHANGED <<pc, rconn, input, payload, posts, raw, lambda, result, wire, trace, conn>>
    /\ UNCHANGED serverVars

\* Variant: a body stream error is swallowed and what was read is posted.
ReadFailIgnored(r) ==
    /\ pc[r] = "read"
    /\ payload' = [payload EXCEPT ![r] = Some(Payload(input[r][1], buf[r]))]
    /\ posts' = [posts EXCEPT ![r] = @ + 1]
    /\ pc' = [pc EXCEPT ![r] = "sent"]
    /\ trace' = [trace EXCEPT ![r] = @ \o <<"build", "post">>]
    /\ UNCHANGED <<rconn, input, rest, buf, raw, lambda, result, wire, conn>>
    /\ UNCHANGED serverVars

\* line 150: the body stream yields an error and ? returns it.
ReadFail(r) ==
    /\ pc[r] = "read"
    /\ result' = [result EXCEPT ![r] = Some(Err("body"))]
    /\ OnServiceError(r)
    /\ UNCHANGED <<rconn, input, rest, buf, payload, posts, raw, lambda, wire, trace>>
    /\ UNCHANGED serverVars

\* lines 151-185, up to the await on send(): the body stream has ended, the
\* payload is built and the POST is issued.
BuildAndPost(r) ==
    /\ pc[r] = "read"
    /\ rest[r] = <<>>
    /\ payload' = [payload EXCEPT ![r] = Some(Payload(input[r][1], buf[r]))]
    /\ posts' = [posts EXCEPT ![r] = @ + 1]
    /\ pc' = [pc EXCEPT ![r] = "sent"]
    /\ trace' = [trace EXCEPT ![r] = @ \o <<"build", "post">>]
    /\ UNCHANGED <<rconn, input, rest, buf, raw, lambda, result, wire, conn>>
    /\ UNCHANGED serverVars

\* Variant: a failed send() is tried again.
TransportFailRetry(r) ==
    /\ pc[r] = "sent"
    /\ posts' = [posts EXCEPT ![r] = @ + 1]
    /\ UNCHANGED <<pc, rconn, input, rest, buf, payload, raw, lambda, result, wire, trace, conn>>
    /\ UNCHANGED serverVars

\* line 185: send() fails (connection refused, reset, ...) and ? returns it.
TransportFail(r) ==
    /\ pc[r] = "sent"
    /\ result' = [result EXCEPT ![r] = Some(Err("transport"))]
    /\ OnServiceError(r)
    /\ UNCHANGED <<rconn, input, rest, buf, payload, posts, raw, lambda, wire, trace>>
    /\ UNCHANGED serverVars

\* line 185: send() returns the head of the upstream's response; its status
\* is not looked at.
UpstreamResponds(r, reply) ==
    /\ pc[r] = "sent"
    /\ raw' = [raw EXCEPT ![r] = Some(reply)]
    /\ pc' = [pc EXCEPT ![r] = "recv"]
    /\ UNCHANGED <<rconn, input, rest, buf, payload, posts, lambda, result, wire, trace, conn>>
    /\ UNCHANGED serverVars

\* lines 187-200: resp.json() reads and deserializes the reply; on success
\* the response is built and handle() returns.
ReceiveJson(r) ==
    /\ pc[r] = "recv"
    /\ LET l == Deserialize(raw[r][1])
       IN  IF IsNone(l)
           THEN /\ result' = [result EXCEPT ![r] = Some(Err("json"))]
                /\ trace' = [trace EXCEPT ![r] = @ \o <<"deserialize">>]
                /\ lambda' = lambda
                /\ OnServiceError(r)
           ELSE /\ lambda' = [lambda EXCEPT ![r] = l]
                /\ trace' = [trace EXCEPT ![r] = @ \o <<"deserialize", "respond">>]
                /\ result' = [result EXCEPT ![r] = Some(BuildResponse(l[1]))]
                /\ IF BuildResponse(l[1]).ok
                   THEN pc' = [pc EXCEPT ![r] = "respond"] /\ conn' = conn
                   ELSE OnServiceError(r)
    /\ UNCHANGED <<rconn, input, rest, buf, payload, posts, raw, wire>>
    /\ UNCHANGED serverVars

\* hyper writes the response handle() returned and the caller takes it.
WriteResponse(r) ==
    /\ pc[r] = "respond"
    /\ wire' = [wire EXCEPT ![r] = result[r][1].resp]
    /\ pc' = [pc EXCEPT ![r] = "done"]
    /\ UNCHANGED <<rconn, input, rest, buf, payload, posts, raw, lambda, result, trace, conn>>
    /\ UNCHANGED serverVars

\* ------------------------------------------------------------- inputs
\* A byte of a header value that is not visible ASCII.
ObsByte == "0x80"

\* A POST with headers (one repeated, one not text) and a one-byte body.
LifeRequests ==
    { [ method |-> "POST",
        uri |-> [path |-> "/submit", query |-> None],
        headers |-> << <<"x-a", <<"1">>>>, <<"x-b", <<"a", ObsByte>>>>, <<"x-a", <<"2">>>> >>,
        body |-> <<104>> ] }

Reply(ok, status, headers, body, b64) ==
    [ wellFormed |-> ok, statusCode |-> status, headers |-> headers,
      body |-> body, isBase64Encoded |-> b64 ]

XId == <<"X","-","I","d">>
EmptyReply == Reply(TRUE, None, None, None, None)
CreatedReply ==
    Reply(TRUE, Some(201), Some([k \in {XId} |-> <<"4","2">>]), Some(<<"o","k">>), None)
\* Not JSON, or JSON of another shape.
MalformedReply == Reply(FALSE, None, None, None, None)

\* A status the deserializer takes and the response builder does not.
BadStatusReply == Reply(TRUE, Some(1000), None, None, None)

LifeReplies == {CreatedReply, MalformedReply, BadStatusReply}

QueryAlphabet == {"a", "=", "&", "+", "%", "4"}
QueryRequests ==
    { [ method |-> "GET",
        uri |-> [path |-> "/widgets", query |-> q],
        headers |-> <<>>,
        body |-> b ] :
      q \in {None} \cup {Some(t) : t \in SeqsUpTo(QueryAlphabet, MaxQueryLen)},
      b \in {<<>>, <<104>>} }

BodyBytes == {0, 104, 255}
BodyRequests ==
    { [ method |-> "POST",
        uri |-> [path |-> "/submit", query |-> q],
        headers |-> <<>>,
        body |-> b ] :
      q \in {None, Some(<<"a","=","4">>)},
      b \in SeqsUpTo(BodyBytes, MaxBodyLen) }

StatusCodes == {0, 99, 100, 201, 999, 1000, 65535, 65536}
HeaderNames == {XId, <<"x","-","i","d">>, <<"b"," ","d">>}
HeaderValues == {<<"4","2">>, <<"a","\n","b">>}
HeaderMaps == UNION {[K -> HeaderValues] : K \in SUBSET HeaderNames}
ReplyBodies == {<<>>, <<"o","k">>, <<"b","2","s","=">>}
Opt(S) == {None} \cup {Some(x) : x \in S}
DecodeReplies ==
    {MalformedReply} \cup
    { Reply(TRUE, st, h, b, f) :
      st \in Opt(StatusCodes), h \in Opt(HeaderMaps), b \in Opt(ReplyBodies),
      f \in Opt(BOOLEAN) }

Protocols == {"h1", "h2"}

\* ------------------------------------------------------- specifications
InitWith(E) ==
    /\ env \in E
    /\ mainPc = "start"
    /\ sockets = {}
    /\ bindParsed = FALSE
    /\ signalled = FALSE
    /\ atSignal = {}
    /\ conn = [c \in Conns |-> [st |-> "free", proto |-> "h1"]]
    /\ pc = [r \in Reqs |-> "idle"]
    /\ rconn = [r \in Reqs |-> 0]
    /\ input = [r \in Reqs |-> None]
    /\ rest = [r \in Reqs |-> <<>>]
    /\ buf = [r \in Reqs |-> <<>>]
    /\ payload = [r \in Reqs |-> None]
    /\ posts = [r \in Reqs |-> 0]
    /\ raw = [r \in Reqs |-> None]
    /\ lambda = [r \in Reqs |-> None]
    /\ result = [r \in Reqs |-> None]
    /\ wire = [r \in Reqs |-> None]
    /\ trace = [r \in Reqs |-> <<>>]

\* One step of the program with connections C, requests R, and the inbound
\* requests and upstream replies drawn from Requests and Replies.
Step(R, C, Requests, Replies) ==
    \/ Startup
    \/ Signal
    \/ ServerReturn
    \/ \E c \in C, p \in Protocols : Accept(c, p)
    \/ \E c \in C : CloseConn(c)
    \/ \E r \in R, c \in C, req \in Requests : Dispatch(r, c, req)
    \/ \E r \in R, n \in 1..MaxBodyLen : ReadChunk(r, n)
    \/ \E r \in R : ReadFail(r)
    \/ \E r \in R : BuildAndPost(r)
    \/ \E r \in R : TransportFail(r)
    \/ \E r \in R, reply \in Replies : UpstreamResponds(r, reply)
    \/ \E r \in R : ReceiveJson(r)
    \/ \E r \in R : WriteResponse(r)

ServingEnvs == {[fd |-> "none", bind |-> "valid", port |-> "free"]}

\* The server with concurrent connections and requests.
Init == InitWith(ServingEnvs)
Next == Step(Reqs, Conns, LifeRequests, LifeReplies)
Spec == Init /\ [][Next]_vars

\* The same, with the fairness the runtime gives the program's own steps: a
\* future that can make progress is polled, and a response handle() has
\* returned is written out.  Nothing is assumed of what the callers send
\* (ReadChunk, ReadFail), of the upstream (TransportFail, UpstreamResponds,
\* ReceiveJson) or of the signal.
NextLive == Step(Reqs, Conns, LifeRequests, {CreatedReply, MalformedReply})
LiveSpec ==
    /\ Init
    /\ [][NextLive]_vars
    /\ WF_vars(Startup)
    /\ WF_vars(ServerReturn)
    /\ \A c \in Conns : WF_vars(signalled /\ CloseConn(c))
    /\ \A r \in Reqs : WF_vars(BuildAndPost(r))
    /\ \A r \in Reqs : WF_vars(WriteResponse(r))

\* Startup from every environment, one connection and one request.
InitStartup == InitWith(Envs)
NextStartup == Step({1}, {1}, LifeRequests, LifeReplies)
SpecStartup == InitStartup /\ [][NextStartup]_vars

\* One request at a time, the inputs of one codec drawn wide.
NextQuery == Step({1}, {1}, QueryRequests, {EmptyReply})
SpecQuery == Init /\ [][NextQuery]_vars
NextBody == Step({1}, {1}, BodyRequests, {EmptyReply})
SpecBody == Init /\ [][NextBody]_vars
NextDecode == Step({1}, {1}, LifeRequests, DecodeReplies)
SpecDecode == Init /\ [][NextDecode]_vars

\* ========================================================== properties
ErrOf(r) == IF IsSome(result[r]) THEN result[r][1].err ELSE "none"
Returned(r) == IsSome(result[r])
ReturnedOk(r) == IsSome(result[r]) /\ result[r][1].ok

\* C1, as stated: every request dispatched to handle() that has finished has
\* had exactly one POST issued for it, never more and never zero.
C1_ExactlyOnePost ==
    \A r \in Reqs : pc[r] \in Finished => posts[r] = 1

\* C1, amended: at most one POST is ever issued for a request (no retry after
\* a transport failure, a malformed reply or a response-building failure);
\* exactly one has been issued once the inbound body has been read to its
\* end, and none when reading the inbound body fails.
C1_AtMostOnePost ==
    \A r \in Reqs :
        /\ posts[r] <= 1
        /\ pc[r] \in {"idle", "read"} => posts[r] = 0
        /\ pc[r] \in {"sent", "recv", "respond", "done"} => posts[r] = 1
        /\ pc[r] = "failed" => posts[r] = (IF ErrOf(r) = "body" THEN 0 ELSE 1)

C1_Witness ==
    /\ \E r \in Reqs : pc[r] = "failed" /\ ErrOf(r) = "transport" /\ posts[r] = 1
    /\ \E r \in Reqs : pc[r] = "failed" /\ ErrOf(r) = "build" /\ posts[r] = 1

\* C2, as stated: every request that failed (body read, transport, malformed
\* JSON, status or header not encodable) has an HTTP error response written
\* to its caller, and the caller's connection is still up.
C2_FailureIsAnErrorResponse ==
    \A r \in Reqs :
        pc[r] = "failed" =>
            /\ IsSome(wire[r])
            /\ conn[rconn[r]].st = "open"

\* What handle() returns for request r, from r's own input and reply alone.
OwnOutcome(r) ==
    IF IsSome(raw[r])
    THEN LET l == Deserialize(raw[r][1])
         IN  IF IsNone(l) THEN Err("json") ELSE BuildResponse(l[1])
    ELSE IF posts[r] = 1 THEN Err("transport") ELSE Err("body")

C3_State ==
    \A r \in Reqs :
        /\ pc[r] # "aborted"
        /\ IsSome(payload[r]) => payload[r][1] = Payload(input[r][1], input[r][1].body)
        /\ Returned(r) => result[r][1] = OwnOutcome(r)
        /\ IsSome(wire[r]) => wire[r] = OwnOutcome(r).resp

C3_FailureStep ==
    \A r \in Reqs :
        (pc[r] # "failed" /\ pc'[r] = "failed") =>
            /\ mainPc' = mainPc /\ signalled' = signalled /\ sockets' = sockets
            /\ \A q \in Reqs \ {r} :
                /\ pc'[q] = pc[q] /\ result'[q] = result[q] /\ wire'[q] = wire[q]
                /\ payload'[q] = payload[q] /\ raw'[q] = raw[q] /\ posts'[q] = posts[q]
            /\ \A c \in Conns \ {rconn[r]} : conn'[c] = conn[c]

C4_State ==
    /\ \A r \in Reqs : pc[r] # "aborted"
    /\ mainPc = "exit_ok" =>
        /\ signalled
        /\ \A r \in atSignal : pc[r] \in Finished
        /\ \A r \in Reqs : pc[r] \notin InFlight

C4_Step ==
    /\ signalled => \A c \in Conns : conn[c].st = "free" => conn'[c].st = "free"
    /\ signalled => \A r \in atSignal : pc'[r] \in InFlight \cup Finished
    /\ mainPc = "exit_ok" => pc' = pc

\* C4: once the signal has resolved no connection is accepted; no request
\* in flight is dropped; and when main() has returned Ok every request that
\* was in flight at the signal has finished (a response written, or a
\* failure) and none is in flight.
C4_GracefulShutdown == [] C4_State /\ [][C4_Step]_vars

C4_Witness ==
    /\ mainPc = "exit_ok"
    /\ \E r \in atSignal : pc[r] = "done"

\* A request is waiting for its caller: for more of the inbound body, or for
\* the caller to take the response.
ClientWait(r) == (pc[r] = "read" /\ rest[r] # <<>>) \/ pc[r] = "respond"
\* A request is waiting for the upstream: for the reply's head or its body.
UpstreamWait(r) == pc[r] \in {"sent", "recv"}
Drained == mainPc = "exit_ok"

\* C5, as stated: after the signal, if every upstream call in flight
\* eventually returns, main() eventually returns Ok.  (A request that came in
\* on an open connection after the signal is set aside: the formula is met
\* while one is in flight, so what refutes it is a request that was in flight
\* at the signal.)
C5_DrainsWhenUpstreamReturns ==
    (\A r \in Reqs : []<>(~UpstreamWait(r)))
        => (signalled ~> (Drained \/ \E r \in Reqs \ atSignal : pc[r] \in InFlight))

C5_State ==
    /\ Drained => signalled
    /\ Drained => \A r \in Reqs : ~UpstreamWait(r)

C5_Step ==
    \A r \in Reqs :
        /\ (pc[r] = "sent" /\ pc'[r] # "sent") =>
              \/ pc'[r] = "recv" /\ IsSome(raw'[r])
              \/ pc'[r] = "failed" /\ result'[r] = Some(Err("transport"))
        /\ (pc[r] = "recv" /\ pc'[r] # "recv") =>
              pc'[r] \in {"respond", "failed"} /\ result'[r] = Some(OwnOutcome(r))

\* C5, amended: main() keeps serving until the signal (it returns Ok only
\* after it); after the signal, if every upstream call in flight eventually
\* returns and every caller eventually finishes sending its body and taking
\* its response, main() eventually returns Ok; a request waiting for the
\* upstream leaves that wait only by the upstream's reply or failure (there
\* is no timeout), and if an upstream call never returns main() never
\* returns.
C5_ShutdownLiveness ==
    /\ [] C5_State
    /\ [][C5_Step]_vars
    /\ (\A r \in Reqs : []<>(~UpstreamWait(r)) /\ []<>(~ClientWait(r)))
          => (signalled ~> Drained)
    /\ \A r \in Reqs : (<>[] UpstreamWait(r)) => [](~Drained)

\* main() has returned Ok after a signal that found a request waiting for the
\* upstream, and that request got its response.
C5_Witness ==
    /\ Drained
    /\ \E r \in atSignal : pc[r] = "done" /\ posts[r] = 1 /\ IsSome(wire[r])
    /\ \E r \in Reqs : pc[r] = "failed"

\* The value of the last pair of pairs whose key is k.
LastValue(pairs, k) ==
    LET i == CHOOSE j \in 1..Len(pairs) :
                 pairs[j][1] = k /\ \A m \in (j + 1)..Len(pairs) : pairs[m][1] # k
    IN  pairs[i][2]

QueryAlwaysPresent ==
    \A r \in Reqs :
        IsSome(payload[r]) =>
            LET q  == input[r][1].uri.query
                qp == payload[r][1].queryStringParameters
            IN  /\ IsSome(qp)
                /\ IsNone(q) => qp[1] = EmptyMap
                /\ IsSome(q) =>
                     LET pairs == FormPairs(q[1])
                     IN  /\ DOMAIN qp[1] = {pairs[i][1] : i \in 1..Len(pairs)}
                         /\ \A k \in DOMAIN qp[1] : qp[1][k] = LastValue(pairs, k)

\* base64 read back, written from RFC 4648 and not from Base64Encode: four
\* characters give three bytes, "=" padding drops the last one or two.
B64Index(c) == (CHOOSE i \in 1..64 : B64Alphabet[i] = c) - 1
RECURSIVE Base64Decode(_)
Base64Decode(t) ==
    IF Len(t) < 4 THEN <<>>
    ELSE LET a == B64Index(t[1])
             b == B64Index(t[2])
             c == IF t[3] = "=" THEN 0 ELSE B64Index(t[3])
             d == IF t[4] = "=" THEN 0 ELSE B64Index(t[4])
             n == ((a * 64 + b) * 64 + c) * 64 + d
             three == <<n \div 65536, (n \div 256) % 256, n % 256>>
             k == IF t[3] = "=" THEN 1 ELSE IF t[4] = "=" THEN 2 ELSE 3
         IN  SubSeq(three, 1, k) \o Base64Decode(SubSeq(t, 5, Len(t)))

\* C7: in the payload handle() builds, body is present exactly when the
\* whole inbound body (every chunk read, in order) is non-empty; when present
\* it is the base64 text of exactly those bytes; isBase64Encoded is false in
\* every payload.
C7_BodyIffNonEmpty ==
    /\ Base64Encode(<<104, 101, 108, 108, 111>>) = <<"a","G","V","s","b","G","8","=">>
    /\ \A r \in Reqs :
        IsSome(payload[r]) =>
            LET sentBody == input[r][1].body
                p == payload[r][1]
            IN  /\ buf[r] = sentBody
                /\ IsSome(p.body) <=> sentBody # <<>>
                /\ IsSome(p.body) =>
                     /\ Len(p.body[1]) = 4 * ((Len(sentBody) + 2) \div 3)
                     /\ \A i \in 1..Len(p.body[1]) :
                            p.body[1][i] = "=" \/ \E j \in 1..64 : B64Alphabet[j] = p.body[1][i]
                     /\ Base64Decode(p.body[1]) = sentBody
                /\ p.isBase64Encoded = FALSE

\* A payload with no body, and one whose body needed padding.
C7_Witness ==
    \E r \in Reqs :
        /\ IsSome(payload[r])
        /\ Len(input[r][1].body) = 2
        /\ IsSome(payload[r][1].body)
        /\ payload[r][1].body[1][4] = "="
        /\ pc[r] = "done"

C9_ListenerPolicy ==
    /\ Cardinality(sockets) <= 1
    /\ mainPc \in {"serving", "exit_ok"} => Cardinality(sockets) = 1
    /\ mainPc # "start" =>
        /\ env.fd # "none" => ~bindParsed /\ "bound" \notin sockets
        /\ env.fd = "ok" => sockets = {"inherited"} /\ mainPc # "exit_fail"
        /\ env.fd = "none" => bindParsed /\ "inherited" \notin sockets
        /\ (env.fd = "none" /\ env.bind = "valid" /\ env.port = "free")
              => sockets = {"bound"} /\ mainPc # "exit_fail"
        /\ ( \/ env.fd \notin {"none", "ok"}
             \/ env.fd = "none" /\ (env.bind = "unparseable" \/ env.port = "inuse") )
              => mainPc = "exit_fail"
    /\ mainPc \in {"start", "exit_fail"} =>
        /\ sockets = {}
        /\ \A c \in Conns : conn[c].st = "free"
        /\ \A r \in Reqs : pc[r] = "idle" /\ posts[r] = 0

\* The inherited socket serving a request although --bind does not parse.
C9_Witness ==
    /\ sockets = {"inherited"}
    /\ env.bind = "unparseable"
    /\ \E r \in Reqs : pc[r] = "done"

StageOrder == <<"read", "build", "post", "deserialize", "respond">>
IsPrefix(s, t) == Len(s) <= Len(t) /\ SubSeq(t, 1, Len(s)) = s

C10_State ==
    \A r \in Reqs :
        /\ IsPrefix(trace[r], StageOrder)
        /\ posts[r] > 0 =>
              rest[r] = <<>> /\ buf[r] = input[r][1].body /\ IsSome(payload[r])
        /\ IsSome(payload[r]) <=> Len(trace[r]) >= 2
        /\ posts[r] > 0 <=> Len(trace[r]) >= 3
        /\ IsSome(lambda[r]) => IsSome(raw[r]) /\ Len(trace[r]) = 5
        /\ ReturnedOk(r) => IsSome(lambda[r])
        /\ IsSome(wire[r]) => ReturnedOk(r)
        /\ pc[r] = "failed" =>
              /\ IsNone(wire[r])
              /\ ErrOf(r) = "body" =>
                    trace[r] = <<"read">> /\ posts[r] = 0 /\ IsNone(payload[r]) /\ IsNone(raw[r])
              /\ ErrOf(r) = "transport" =>
                    trace[r] = SubSeq(StageOrder, 1, 3) /\ IsNone(raw[r]) /\ IsNone(lambda[r])
              /\ ErrOf(r) = "json" =>
                    trace[r] = SubSeq(StageOrder, 1, 4) /\ IsNone(lambda[r])
              /\ ErrOf(r) = "build" => trace[r] = StageOrder

C10_Step ==
    \A r \in Reqs :
        /\ IsPrefix(trace[r], trace'[r])
        /\ pc[r] = "failed" =>
              /\ pc'[r] = "failed" /\ trace'[r] = trace[r] /\ posts'[r] = posts[r]
              /\ payload'[r] = payload[r] /\ raw'[r] = raw[r] /\ lambda'[r] = lambda[r]
              /\ result'[r] = result[r] /\ wire'[r] = wire[r]

\* C10: the stages of one request run only in the order read, build, post,
\* deserialize, respond: a POST has gone out only with the whole inbound body
\* read, a response exists only with the upstream reply received and
\* deserialized, and a failed stage is the last stage of its request: a body
\* read failure leaves no payload and no POST, a transport failure no reply,
\* malformed JSON no decoded reply and no response, and nothing of a failed
\* request changes afterwards.
C10_StageOrder == [] C10_State /\ [][C10_Step]_vars

\* A body read that failed after a chunk had been read, and a reply that was
\* malformed.
C10_Witness ==
    /\ \E r \in Reqs : pc[r] = "failed" /\ ErrOf(r) = "body" /\ buf[r] # <<>> /\ posts[r] = 0
    /\ \E r \in Reqs : pc[r] = "failed" /\ ErrOf(r) = "json" /\ IsNone(lambda[r])

====
